---- MODULE Spec2Model ----
(***************************************************************************)
(* Model of back_end/app.py of housing-insights: the manual table loader   *)
(* (make_table, one call per HTTP request thread) and the nightly job      *)
(* (auto_load_tables, run on the scheduler's thread).                      *)
(*                                                                         *)
(* The ETL loaders and mailer.send_mail are called, not defined, by        *)
(* app.py.  A call to one of them is modelled by its possible outcomes:    *)
(* a loader returns True or False or raises; send_mail returns or raises.  *)
(* app.py has no try/except around any of these calls, so a raise leaves   *)
(* the function at the call.                                               *)
(***************************************************************************)
EXTENDS Naturals, Sequences, FiniteSets

\* Number of request threads that may be inside make_table at the same time.
NumHandlers == 2

Handlers == 1..NumHandlers
Sched == 0
Procs == {Sched} \cup Handlers

\* (mutation of table_loaders: the permit entry copied from the crime entry)
table_loaders_copied_entry ==
    [acs        |-> "load_acs_data",
     crime      |-> "load_crime_data",
     permit     |-> "load_crime_data",
     project    |-> "load_project_data",
     subsidy    |-> "load_subsidy_data",
     zone_facts |-> "make_zone_facts"]

\* table_loaders: table name -> the ETL function registered for it.
table_loaders ==
    [acs        |-> "load_acs_data",
     crime      |-> "load_crime_data",
     permit     |-> "load_permit_data",
     project    |-> "load_project_data",
     subsidy    |-> "load_subsidy_data",
     zone_facts |-> "make_zone_facts"]

\* get_credentials('load-data-password')
Credential == "load-data-password"

\* URL path segments a request may carry.
TableNames == (DOMAIN table_loaders) \cup {"not_a_table", "Crime"}
Passwords == {Credential, "Load-Data-Password", "load-data-passwor"}

\* What a call of an ETL loader returns: True if the table was loaded.
LoaderResults == BOOLEAN

\* Outcomes of a call into mailer.send_mail.
MailOutcomes == {"sent", "raise"}

\* ------------------------------------------------------------ text values

\* 'Invalid data loading attempted.'
InvalidAttemptMail == <<"Invalid data loading attempted.">>

\* 'Loaded {} table.'.format(table_name)
LoadedMail(t) == <<"Loaded ", t, " table.">>

NoResponse == [page |-> "none"]
\* '<h1>Invalid Password: Please Try Again</h1>'
InvalidPasswordPage == [page |-> "Invalid Password"]
\* '<h1>Invalid Table Name: Please Try Again</h1> <h2>Tables Are:</h2> <ul>...'
InvalidTablePage ==
    [page |-> "Invalid Table Name",
     tables |-> <<"crime", "acs", "permit", "project">>]
\* '<h1>Success! Loaded {} table.</h1>'.format(table_name)
SuccessPage(t) == [page |-> "Success", table |-> t]
\* '<h1>Unable to load {} table.</h1> ... load the backup data.'
UnablePage(t) == [page |-> "Unable to load", table |-> t]
\* What the caller gets when make_table is left by an exception.
InternalServerError == [page |-> "Internal Server Error"]
\* auto_load_tables returns None / is left by an exception.
JobReturned == [page |-> "job returned"]
JobRaised == [page |-> "job raised"]

\* "Data update for {}\n".format(datetime.datetime.now())
ReportHeader == <<"Data update for ", "now">>

\* (mutation of SchedSteps: the two branches of the permit block swapped)
SchedSteps_swapped_branches ==
    << [loader |-> "load_crime_data",
        ok     |-> <<"Crime table load", "successful.">>,
        notok  |-> <<"Crime table load", "not successful.", "Using backup.">>],
       [loader |-> "load_permit_data",
        ok     |-> <<"Permit table load", "not successful.", "Using backup.">>,
        notok  |-> <<"Permit table load", "successful.">>],
       [loader |-> "make_zone_facts",
        ok     |-> <<"Zone facts table creation", "successful.">>,
        notok  |-> <<"Zone facts table creation", "not successful.",
                     "Using backup.">>] >>

\* The three if/else blocks of auto_load_tables, in program order: the
\* loader called and the line appended for a True and for a False return.
SchedSteps ==
    << [loader |-> "load_crime_data",
        ok     |-> <<"Crime table load", "successful.">>,
        notok  |-> <<"Crime table load", "not successful.", "Using backup.">>],
       [loader |-> "load_permit_data",
        ok     |-> <<"Permit table load", "successful.">>,
        notok  |-> <<"Permit table load", "not successful.", "Using backup.">>],
       [loader |-> "make_zone_facts",
        ok     |-> <<"Zone facts table creation", "successful.">>,
        notok  |-> <<"Zone facts table creation", "not successful.",
                     "Using backup.">>] >>

\* A local variable of a function that is not being executed.
Unset == "-"

\* The record kept of a finished call: its arguments, the loaders it called,
\* the values they returned, the call that raised (if one did), the messages
\* it handed to send_mail and what its caller received.
Finished(f, t, pw, inv, ld, flt, snt, resp) ==
    [call |-> f, table_name |-> t, password |-> pw, invoked |-> inv,
     loaded |-> ld, fault |-> flt, sent |-> snt, response |-> resp]

NothingFinished ==
    Finished("none", Unset, Unset, <<>>, <<>>, "none", <<>>, NoResponse)

VARIABLES
    pc,          \* where each thread is
    table_name,  \* make_table's argument, per handler
    password,    \* make_table's argument, per handler
    invoked,     \* loaders called so far by the call each thread is executing
    loaded,      \* values those loaders have returned so far
    message,     \* auto_load_tables' local: the report, a sequence of lines
    last,        \* the most recently finished call of make_table or the job
    registry     \* the module-level dict table_loaders as it is now

vars == <<pc, table_name, password, invoked, loaded, message, last, registry>>

Init ==
    /\ pc = [p \in Procs |-> "idle"]
    /\ table_name = [h \in Handlers |-> Unset]
    /\ password = [h \in Handlers |-> Unset]
    /\ invoked = [p \in Procs |-> <<>>]
    /\ loaded = [p \in Procs |-> <<>>]
    /\ message = <<>>
    /\ last = NothingFinished
    /\ registry = table_loaders

\* ------------------------------------------------------------ make_table

\* (mutation of make_table_entry: the table name is looked up without the
\* membership test, an unknown name falling back to the first loader)
make_table_entry_unchecked(t, pw, m) ==
    IF pw /= Credential
    THEN [pc       |-> "idle",
          invoked  |-> <<>>,
          sent     |-> <<InvalidAttemptMail>>,
          fault    |-> IF m = "raise" THEN "send_mail" ELSE "none",
          response |-> IF m = "raise" THEN InternalServerError
                       ELSE InvalidPasswordPage]
    ELSE [pc       |-> "in_loader",
          invoked  |-> <<IF t \in DOMAIN registry THEN registry[t]
                         ELSE registry["acs"]>>,
          sent     |-> <<>>,
          fault    |-> "none",
          response |-> NoResponse]

\* make_table from its entry to the call of the loader, or to its return
\* when it does not get that far.  m is the outcome of send_mail, if called.
make_table_entry(t, pw, m) ==
    IF pw /= Credential
    THEN [pc       |-> "idle",
          invoked  |-> <<>>,
          sent     |-> <<InvalidAttemptMail>>,
          fault    |-> IF m = "raise" THEN "send_mail" ELSE "none",
          response |-> IF m = "raise" THEN InternalServerError
                       ELSE InvalidPasswordPage]
    ELSE IF t \notin DOMAIN registry
    THEN [pc       |-> "idle",
          invoked  |-> <<>>,
          sent     |-> <<>>,
          fault    |-> "none",
          response |-> InvalidTablePage]
    ELSE [pc       |-> "in_loader",
          invoked  |-> <<registry[t]>>,
          sent     |-> <<>>,
          fault    |-> "none",
          response |-> NoResponse]

\* A request arrives at a free handler thread, which runs make_table up to
\* the loader call, or to its return on the two early-return paths.
Request(h, t, pw, m) ==
    /\ pc[h] = "idle"
    /\ pw = Credential => m = "sent"
    /\ LET e == make_table_entry(t, pw, m) IN
         /\ pc' = [pc EXCEPT ![h] = e.pc]
         /\ invoked' = [invoked EXCEPT ![h] = IF e.pc = "idle" THEN <<>> ELSE e.invoked]
         /\ table_name' = [table_name EXCEPT ![h] = IF e.pc = "idle" THEN Unset ELSE t]
         /\ password' = [password EXCEPT ![h] = IF e.pc = "idle" THEN Unset ELSE pw]
         /\ last' = IF e.pc = "idle"
                    THEN Finished("make_table", t, pw, e.invoked, <<>>, e.fault,
                                  e.sent, e.response)
                    ELSE last
    /\ UNCHANGED <<loaded, message, registry>>

\* make_table after its loader returned r: the mail and the page.
make_table_exit(t, r, m) ==
    IF r
    THEN [sent     |-> <<LoadedMail(t)>>,
          fault    |-> IF m = "raise" THEN "send_mail" ELSE "none",
          response |-> IF m = "raise" THEN InternalServerError
                       ELSE SuccessPage(t)]
    ELSE [sent     |-> <<>>,
          fault    |-> "none",
          response |-> UnablePage(t)]

\* Handler h leaves make_table: its locals go, the finished call is recorded.
HandlerReturns(h, ld, flt, snt, resp) ==
    /\ last' = Finished("make_table", table_name[h], password[h], invoked[h],
                        ld, flt, snt, resp)
    /\ pc' = [pc EXCEPT ![h] = "idle"]
    /\ table_name' = [table_name EXCEPT ![h] = Unset]
    /\ password' = [password EXCEPT ![h] = Unset]
    /\ invoked' = [invoked EXCEPT ![h] = <<>>]
    /\ UNCHANGED <<loaded, message, registry>>

\* The loader called by handler h returns r; make_table runs to its return.
LoaderReturn(h, r, m) ==
    /\ pc[h] = "in_loader"
    /\ ~r => m = "sent"
    /\ LET x == make_table_exit(table_name[h], r, m) IN
         HandlerReturns(h, <<r>>, x.fault, x.sent, x.response)

\* The loader called by handler h raises: make_table is left at that call.
LoaderRaise(h) ==
    /\ pc[h] = "in_loader"
    /\ HandlerReturns(h, <<>>, "loader", <<>>, InternalServerError)

\* ------------------------------------------------------- auto_load_tables

\* The cron trigger fires: the job starts and calls its first loader.
Fire ==
    /\ pc[Sched] = "idle"
    /\ message' = <<ReportHeader>>
    /\ invoked' = [invoked EXCEPT ![Sched] = <<SchedSteps[1].loader>>]
    /\ pc' = [pc EXCEPT ![Sched] = "in_loader"]
    /\ UNCHANGED <<table_name, password, loaded, last, registry>>

\* (mutation of sched_after: a False return ends the sequence of loads)
sched_after_abort(i, r) == IF r /\ i < Len(SchedSteps) THEN "call" ELSE "send"

\* Where the job goes after the loader of its i-th if statement returned r.
sched_after(i, r) == IF i < Len(SchedSteps) THEN "call" ELSE "send"

\* The job's current loader returns r: the if/else appends its line.
SchedLoaderReturn(r) ==
    /\ pc[Sched] = "in_loader"
    /\ LET i == Len(loaded[Sched]) + 1 IN
         /\ message' = Append(message,
                              IF r THEN SchedSteps[i].ok ELSE SchedSteps[i].notok)
         /\ pc' = [pc EXCEPT ![Sched] = sched_after(i, r)]
    /\ loaded' = [loaded EXCEPT ![Sched] = Append(@, r)]
    /\ UNCHANGED <<table_name, password, invoked, last, registry>>

\* The job calls the loader of its next if statement.
SchedCall ==
    /\ pc[Sched] = "call"
    /\ invoked' = [invoked EXCEPT
                     ![Sched] = Append(@, SchedSteps[Len(loaded[Sched]) + 1].loader)]
    /\ pc' = [pc EXCEPT ![Sched] = "in_loader"]
    /\ UNCHANGED <<table_name, password, loaded, message, last, registry>>

\* The job leaves auto_load_tables: its locals go, the finished job is recorded.
JobReturns(flt, snt, resp) ==
    /\ last' = Finished("auto_load_tables", Unset, Unset, invoked[Sched],
                        loaded[Sched], flt, snt, resp)
    /\ pc' = [pc EXCEPT ![Sched] = "idle"]
    /\ invoked' = [invoked EXCEPT ![Sched] = <<>>]
    /\ loaded' = [loaded EXCEPT ![Sched] = <<>>]
    /\ message' = <<>>
    /\ UNCHANGED <<table_name, password, registry>>

\* The job's current loader raises: auto_load_tables is left at that call.
SchedLoaderRaise ==
    /\ pc[Sched] = "in_loader"
    /\ JobReturns("loader", <<>>, JobRaised)

\* send_mail(message), the job's last statement.
SendReport(m) ==
    /\ pc[Sched] = "send"
    /\ JobReturns(IF m = "raise" THEN "send_mail" ELSE "none", <<message>>,
                  IF m = "raise" THEN JobRaised ELSE JobReturned)

\* ------------------------------------------------------------------ system

Next ==
    \/ \E h \in Handlers, t \in TableNames, pw \in Passwords, m \in MailOutcomes :
         Request(h, t, pw, m)
    \/ \E h \in Handlers, r \in LoaderResults, m \in MailOutcomes : LoaderReturn(h, r, m)
    \/ \E h \in Handlers : LoaderRaise(h)
    \/ Fire
    \/ \E r \in LoaderResults : SchedLoaderReturn(r)
    \/ SchedLoaderRaise
    \/ SchedCall
    \/ \E m \in MailOutcomes : SendReport(m)

Spec == Init /\ [][Next]_vars

\* A step of the job's thread once the job has started.
JobStep ==
    \/ \E r \in LoaderResults : SchedLoaderReturn(r)
    \/ SchedLoaderRaise
    \/ SchedCall
    \/ \E m \in MailOutcomes : SendReport(m)

\* A step of handler h's thread once its loader has been called.
HandlerStep(h) ==
    \/ \E r \in LoaderResults, m \in MailOutcomes : LoaderReturn(h, r, m)
    \/ LoaderRaise(h)

\* The system when every loader call and every send_mail call ends and a
\* running thread keeps being scheduled.
LiveSpec ==
    /\ Spec
    /\ WF_vars(JobStep)
    /\ \A h \in Handlers : WF_vars(HandlerStep(h))

\* ------------------------------------------------------------- properties

ManualFinished == last.call = "make_table"
JobFinished == last.call = "auto_load_tables"
Registered(t) == t \in DOMAIN table_loaders

\* The loaders of the nightly job, in program order.
JobLoaders == [i \in 1..Len(SchedSteps) |-> SchedSteps[i].loader]

IsPrefix(s, t) == Len(s) <= Len(t) /\ \A i \in 1..Len(s) : s[i] = t[i]

\* A thread is inside a refresh run: it has called a loader and has not yet
\* got the result of the last loader of its run.
InRun(p) == pc[p] \in {"in_loader", "call"}

\* C1: a manual trigger with a secret other than the credential, for any
\* table name, returns the invalid-password page, hands exactly the
\* invalid-attempt message to send_mail and calls no loader.
C1_Unauthorized ==
    (ManualFinished /\ last.password /= Credential)
        => /\ last.response = InvalidPasswordPage
           /\ last.sent = <<InvalidAttemptMail>>
           /\ last.invoked = <<>>

\* C2: a manual trigger with the credential and a table name that is not a
\* key of table_loaders returns the invalid-table page, calls no loader and
\* hands nothing to send_mail.
C2_UnknownTable ==
    (ManualFinished /\ last.password = Credential /\ ~Registered(last.table_name))
        => /\ last.response = InvalidTablePage
           /\ last.invoked = <<>>
           /\ last.loaded = <<>>
           /\ last.sent = <<>>
           /\ last.fault = "none"

C2_Witness ==
    /\ ManualFinished
    /\ last.password = Credential
    /\ last.table_name = "not_a_table"
    /\ last.response = InvalidTablePage

\* C3: a manual trigger with the credential and a registered table name,
\* whose loader returned True or returned False, hands exactly one message
\* to send_mail.
C3_NotifiesEitherWay ==
    (/\ ManualFinished
     /\ last.password = Credential
     /\ Registered(last.table_name)
     /\ Len(last.loaded) = 1)
        => Len(last.sent) = 1

\* C4: at most one thread is inside a refresh run at any time, so the loader
\* calls of two runs never overlap or interleave.
C4_SingleActiveRun == Cardinality({p \in Procs : InRun(p)}) <= 1

\* C5: the nightly job calls load_crime_data, load_permit_data and
\* make_zone_facts once each, one at a time, in that order, whatever values
\* the earlier loaders returned: each loader that returns is followed by the
\* call of the next one, and the report is sent only after all three.
C5_ScheduledOrder ==
    /\ IsPrefix(invoked[Sched], JobLoaders)
    /\ pc[Sched] = "idle" => invoked[Sched] = <<>> /\ loaded[Sched] = <<>>
    /\ pc[Sched] = "in_loader" => Len(invoked[Sched]) = Len(loaded[Sched]) + 1
    /\ pc[Sched] = "call" => /\ Len(invoked[Sched]) = Len(loaded[Sched])
                             /\ Len(loaded[Sched]) \in 1..(Len(JobLoaders) - 1)
    /\ pc[Sched] = "send" => /\ invoked[Sched] = JobLoaders
                             /\ Len(loaded[Sched]) = Len(JobLoaders)
    /\ JobFinished =>
         /\ IsPrefix(last.invoked, JobLoaders)
         /\ last.fault /= "loader" => /\ last.invoked = JobLoaders
                                      /\ Len(last.loaded) = Len(JobLoaders)
         /\ last.fault = "loader" => Len(last.invoked) = Len(last.loaded) + 1

C5_Witness ==
    /\ JobFinished
    /\ last.invoked = JobLoaders
    /\ last.loaded = <<FALSE, FALSE, TRUE>>

\* C6: a loader that raises is turned into a failed result and the run goes
\* on: the job still calls all three loaders and still sends its report, and
\* a manual trigger returns the unable-to-load page.
C6_FaultContained ==
    last.fault = "loader"
        => /\ JobFinished => /\ last.invoked = JobLoaders
                             /\ Len(last.sent) = 1
           /\ ManualFinished => last.response = UnablePage(last.table_name)

StaleFlag == "built from stale dependency"
Flagged(line) == \E i \in 1..Len(line) : line[i] = StaleFlag

\* C7: in a job in which all three loaders returned, the zone facts line of
\* the report flags staleness exactly when crime or permit returned False,
\* and says successful exactly when make_zone_facts returned True.
C7_StaleDependencyFlag ==
    (JobFinished /\ Len(last.loaded) = 3 /\ Len(last.sent) = 1)
        => LET line == last.sent[1][4] IN
             /\ Flagged(line) <=> (~last.loaded[1] \/ ~last.loaded[2])
             /\ (line = SchedSteps[3].ok) <=> last.loaded[3]

\* C8: every job hands a report to send_mail exactly once, after all three
\* loaders returned, and that report has a line for each of the three tables.
C8_ReportOncePerJob ==
    JobFinished
        => /\ Len(last.sent) = 1
           /\ Len(last.loaded) = Len(JobLoaders)
           /\ Len(last.sent[1]) = 1 + Len(JobLoaders)

\* C9: when send_mail fails the failure goes no further: the job returns
\* normally, a manual trigger whose loader returned True gets the success
\* page, and a manual trigger with a wrong secret gets the invalid-password
\* page.
C9_NotifierFailureSwallowed ==
    last.fault = "send_mail"
        => /\ JobFinished => last.response = JobReturned
           /\ (ManualFinished /\ last.password = Credential)
                => last.response = SuccessPage(last.table_name)
           /\ (ManualFinished /\ last.password /= Credential)
                => last.response = InvalidPasswordPage

\* C10: the table names listed on the invalid-table page are exactly the
\* keys of table_loaders.
C10_ListingIsRegistry ==
    (ManualFinished /\ last.response.page = "Invalid Table Name")
        => {last.response.tables[i] : i \in 1..Len(last.response.tables)}
             = DOMAIN table_loaders

\* C11: the job is started only when no refresh run is active (neither a
\* manual one nor another job).
C11_RunningOnlyWhenNoRunActive ==
    [][(pc[Sched] = "idle" /\ pc'[Sched] /= "idle")
         => \A p \in Procs : ~InRun(p)]_vars

\* (the other half of C11: when loaders and send_mail end, a started job or
\* manual load gets back to idle)
EveryRunReturnsToIdle == \A p \in Procs : (pc[p] /= "idle") ~> (pc[p] = "idle")

\* A line of text contains the phrase.
Says(line, phrase) == \E i \in 1..Len(line) : line[i] = phrase

\* What the report's lines are about, in the claimed order.
ReportSubjects ==
    <<"Crime table load", "Permit table load", "Zone facts table creation">>

\* The lines of report rep agree with the loader results ld: line i is
\* about table i, says successful exactly when loader i returned True and
\* has the backup wording exactly when it returned False.
LinesAgree(rep, ld) ==
    /\ Len(rep) = 1 + Len(ld)
    /\ rep[1] = ReportHeader
    /\ \A i \in 1..Len(ld) :
         /\ rep[i + 1][1] = ReportSubjects[i]
         /\ Says(rep[i + 1], "successful.") <=> ld[i]
         /\ Says(rep[i + 1], "Using backup.") <=> ~ld[i]

\* C12: in the job's report the lines for crime, permit and zone_facts come
\* in that order, each saying successful exactly when its own loader returned
\* True and carrying the Using backup wording exactly when it returned
\* False; this holds of the report while it is built and of the one sent.
C12_ReportLines ==
    /\ pc[Sched] /= "idle" => LinesAgree(message, loaded[Sched])
    /\ (JobFinished /\ last.sent /= <<>>)
         => /\ Len(last.sent) = 1
            /\ Len(last.loaded) = Len(ReportSubjects)
            /\ LinesAgree(last.sent[1], last.loaded)

C12_Witness ==
    /\ JobFinished
    /\ last.loaded = <<FALSE, TRUE, TRUE>>
    /\ Len(last.sent) = 1
    /\ Says(last.sent[1][2], "Using backup.")
    /\ Says(last.sent[1][3], "successful.")

\* C13: a manual trigger with the credential and a registered table name
\* calls exactly one loader, once, the one registered for that name, and
\* returns the success page exactly when that loader returned True and the
\* unable-to-load page otherwise.
C13_OneLoaderAndItsOutcome ==
    (ManualFinished /\ last.password = Credential /\ Registered(last.table_name))
        => /\ last.invoked = <<table_loaders[last.table_name]>>
           /\ last.response = IF last.loaded = <<TRUE>>
                              THEN SuccessPage(last.table_name)
                              ELSE UnablePage(last.table_name)

\* The table identifiers the nightly job refreshes, in order.
JobTables == <<"crime", "permit", "zone_facts">>

\* Each loader in the sequence inv of a job's calls is the one the registry
\* holds for the job's table at that position.
JobUsesRegistry(inv) ==
    \A i \in 1..Len(inv) :
        /\ JobTables[i] \in DOMAIN registry
        /\ inv[i] = registry[JobTables[i]]

\* C14: the registry always has the six keys and loaders it started with;
\* every loader the job calls is the one registered for crime, permit or
\* zone_facts, and every loader a manual trigger calls is the one registered
\* for its table name, so both call the same loader for the same table.
C14_RegistryFixedAndShared ==
    /\ registry = table_loaders
    /\ DOMAIN registry =
         {"acs", "crime", "permit", "project", "subsidy", "zone_facts"}
    /\ JobUsesRegistry(invoked[Sched])
    /\ JobFinished => JobUsesRegistry(last.invoked)
    /\ \A h \in Handlers :
         pc[h] = "in_loader" => invoked[h] = <<registry[table_name[h]]>>
    /\ (ManualFinished /\ last.invoked /= <<>>)
         => last.invoked = <<registry[last.table_name]>>

C14_Witness ==
    /\ last /= NothingFinished
    /\ pc[Sched] = "in_loader"
    /\ Len(invoked[Sched]) = 3
    /\ \E h \in Handlers :
         /\ pc[h] = "in_loader"
         /\ table_name[h] = "zone_facts"
         /\ invoked[h] = <<invoked[Sched][3]>>

TypeOK ==
    /\ pc \in [Procs -> {"idle", "in_loader", "call", "send"}]
    /\ table_name \in [Handlers -> TableNames \cup {Unset}]
    /\ password \in [Handlers -> Passwords \cup {Unset}]
    /\ \A p \in Procs : Len(loaded[p]) <= Len(invoked[p])
    /\ last.fault \in {"none", "loader", "send_mail"}
    /\ last.call \in {"none", "make_table", "auto_load_tables"}
====
